---- MODULE Spec2Model ----
(***************************************************************************)
(* Model of scripts/demo_platform_metadata.py: the identifier resolution   *)
(* pipeline analyze_research_platform(url, property_id) and the helpers it *)
(* calls.  Python strings are sequences of one-character strings; the      *)
(* knowledge base (Wikidata) is the environment: every request either      *)
(* fails (requests.RequestException, caught by the callee, which then      *)
(* returns None) or answers with data drawn from a bounded set.            *)
(***************************************************************************)
EXTENDS Integers, Sequences, FiniteSets, TLC

(***************************************************************************)
(* Bounds of the model.                                                    *)
(***************************************************************************)
\* longest list of catalog items one website query answers with
MaxItems == 2
\* longest list of backlinked property ids one backlink query answers with
MaxBacklinks == 2

(***************************************************************************)
(* Characters and strings.                                                 *)
(***************************************************************************)
LowerSeq == <<"a","b","c","d","e","f","g","h","i","j","k","l","m",
              "n","o","p","q","r","s","t","u","v","w","x","y","z">>
UpperSeq == <<"A","B","C","D","E","F","G","H","I","J","K","L","M",
              "N","O","P","Q","R","S","T","U","V","W","X","Y","Z">>
Range(s) == {s[i] : i \in DOMAIN s}
LowerChars == Range(LowerSeq)
UpperChars == Range(UpperSeq)
Digits == {"0","1","2","3","4","5","6","7","8","9"}
Whitespace == {" "}
\* every character the inputs of the model are written with
Alphabet == LowerChars \cup UpperChars \cup Digits \cup Whitespace
              \cup {":", "/", ".", "@", "?", "=", "#", "[", "$", "-", "+"}

\* str.lower() on one character, then on a string
LowerChar(c) == IF c \in UpperChars
                THEN LowerSeq[CHOOSE i \in DOMAIN UpperSeq : UpperSeq[i] = c]
                ELSE c
Lower(s) == [i \in DOMAIN s |-> LowerChar(s[i])]

SetMin(S) == CHOOSE x \in S : \A y \in S : x <= y
SetMax(S) == CHOOSE x \in S : \A y \in S : y <= x

\* s[from..] and s[from..to], 1-based and total (empty when out of range)
Drop(s, n) == SubSeq(s, n + 1, Len(s))
\* pre occurs in s at position i
OccursAt(s, pre, i) ==
    /\ i >= 1
    /\ i + Len(pre) - 1 <= Len(s)
    /\ \A k \in 1..Len(pre) : s[i + k - 1] = pre[k]
\* str.find(c, start): least position >= start holding a character of cs, 0 if none
FindFrom(s, cs, start) ==
    LET hits == {i \in start..Len(s) : s[i] \in cs}
    IN  IF hits = {} THEN 0 ELSE SetMin(hits)
\* length of the longest run of characters of cls that starts at position i
RunLen(s, i, cls) ==
    LET ends == {j \in (i - 1)..Len(s) : \A k \in i..j : s[k] \in cls}
    IN  SetMax(ends) - i + 1

(***************************************************************************)
(* Python values that may be None.                                         *)
(***************************************************************************)
None == [kind |-> "none"]
Str(s) == [kind |-> "str", s |-> s]
\* bool(v) of an optional string: None and "" are falsy
StrTruthy(v) == v.kind = "str" /\ v.s # <<>>

(***************************************************************************)
(* urllib.parse.urlparse(url).netloc, as get_domain_from_url uses it.      *)
(***************************************************************************)
SchemeChars == LowerChars \cup UpperChars \cup Digits \cup {"+", "-", "."}

\* url.lstrip(_WHATWG_C0_CONTROL_OR_SPACE)
RECURSIVE LStrip(_)
LStrip(s) == IF s # <<>> /\ s[1] \in Whitespace THEN LStrip(Tail(s)) ELSE s

\* the url left once urlsplit has removed "<scheme>:"
AfterScheme(u) ==
    LET i == FindFrom(u, {":"}, 1)
    IN  IF /\ i > 1
           /\ u[1] \in LowerChars \cup UpperChars
           /\ \A k \in 1..(i - 1) : u[k] \in SchemeChars
        THEN Drop(u, i)
        ELSE u

\* _splitnetloc(url, 2)[0] when url starts with "//", else ''
NetlocOf(rest) ==
    IF Len(rest) >= 2 /\ rest[1] = "/" /\ rest[2] = "/"
    THEN LET d == FindFrom(rest, {"/", "?", "#"}, 3)
             delim == IF d = 0 THEN Len(rest) + 1 ELSE d
         IN  SubSeq(rest, 3, delim - 1)
    ELSE <<>>

\* urlsplit raises ValueError("Invalid IPv6 URL") on an unbalanced bracket
UrlparseRaises(url) ==
    LET n == NetlocOf(AfterScheme(LStrip(url)))
    IN  \/ ("[" \in Range(n) /\ "]" \notin Range(n))
        \/ ("]" \in Range(n) /\ "[" \notin Range(n))

get_domain_from_url(url) == NetlocOf(AfterScheme(LStrip(url)))


(***************************************************************************)
(* Regular expressions.  A pattern string of the knowledge base is         *)
(* modelled by its structure: None, the empty string, a string re.compile  *)
(* rejects (re.error), a literal without a capturing group, or             *)
(* <literal>([<class>]{min,}): a literal followed by one greedy capturing  *)
(* group over a character class.                                           *)
(***************************************************************************)
PatEmpty == [kind |-> "empty"]
PatInvalid == [kind |-> "invalid"]
PatLiteral(pre) == [kind |-> "nogroup", pre |-> pre]
PatCapture(pre, cls, min) == [kind |-> "capture", pre |-> pre, cls |-> cls, min |-> min]
\* bool(pattern): None and "" are falsy
PatTruthy(p) == p.kind \notin {"none", "empty"}

\* re.search(pattern, url).group(1) for a capture pattern: the leftmost
\* position where the literal occurs and the group can take min characters
SearchCapture(p, url) ==
    LET starts == {i \in 1..(Len(url) + 1) :
                      /\ OccursAt(url, p.pre, i)
                      /\ RunLen(url, i + Len(p.pre), p.cls) >= p.min}
    IN  IF starts = {} THEN None
        ELSE LET i == SetMin(starts)
                 b == i + Len(p.pre)
             IN  Str(SubSeq(url, b, b + RunLen(url, b, p.cls) - 1))

\* re.search(r'(10\.\d+/[^/\s]+)$', url): positions where the DOI regex matches
DoiMatchAt(url, i) ==
    /\ OccursAt(url, <<"1", "0", ".">>, i)
    /\ LET d == RunLen(url, i + 3, Digits)
           slash == i + 3 + d
       IN  /\ d >= 1
           /\ slash < Len(url)
           /\ url[slash] = "/"
           /\ \A k \in (slash + 1)..Len(url) : url[k] \notin {"/"} \cup Whitespace
\* variant: the group opens after the "10." prefix, r'10\.(\d+/[^/\s]+)$'
DoiSearch_GroupAfterPrefix(url) ==
    LET starts == {i \in 1..Len(url) : DoiMatchAt(url, i)}
    IN  IF starts = {} THEN None ELSE Str(Drop(url, SetMin(starts) + 2))
\* doi_match.group(1), or None when doi_match is None
DoiSearch(url) ==
    LET starts == {i \in 1..Len(url) : DoiMatchAt(url, i)}
    IN  IF starts = {} THEN None ELSE Str(Drop(url, SetMin(starts) - 1))

(***************************************************************************)
(* extract_id_from_url and validate_id_format.                             *)
(***************************************************************************)
extract_id_from_url(url, property_details) ==
    LET pattern == property_details.url_pattern
    IN  IF ~PatTruthy(pattern) THEN None
        ELSE IF pattern.kind = "invalid" THEN None      \* except re.error
        ELSE IF pattern.kind = "nogroup" THEN None      \* match.groups() is empty
        ELSE SearchCapture(pattern, url)

\* a constraint is None, "", invalid, or [<class>]+ ; matched as ^...$
ConClass(cls) == [kind |-> "class", cls |-> cls]
\* variant: a constraint that does not compile accepts every id
validate_id_format_FailOpen(id_value, format_constraint) ==
    IF ~PatTruthy(format_constraint) THEN TRUE
    ELSE IF format_constraint.kind = "invalid" THEN TRUE
    ELSE id_value # <<>> /\ \A k \in DOMAIN id_value : id_value[k] \in format_constraint.cls
validate_id_format(id_value, format_constraint) ==
    IF ~PatTruthy(format_constraint) THEN TRUE
    ELSE IF format_constraint.kind = "invalid" THEN FALSE   \* except re.error
    ELSE id_value # <<>> /\ \A k \in DOMAIN id_value : id_value[k] \in format_constraint.cls

\* str.replace("$1", id): every occurrence of the placeholder
RECURSIVE ReplaceDollar1(_, _)
ReplaceDollar1(t, id) ==
    IF t = <<>> THEN <<>>
    ELSE IF OccursAt(t, <<"$", "1">>, 1) THEN id \o ReplaceDollar1(Drop(t, 2), id)
    ELSE <<t[1]>> \o ReplaceDollar1(Tail(t), id)

(***************************************************************************)
(* String literals of the program and of the inputs.                       *)
(***************************************************************************)
S_doi_org == <<"d","o","i",".","o","r","g">>
S_arxiv_org == <<"a","r","x","i","v",".","o","r","g">>
S_openreview_net == <<"o","p","e","n","r","e","v","i","e","w",".","n","e","t">>
S_orcid_org == <<"o","r","c","i","d",".","o","r","g">>
S_semanticscholar_org == <<"s","e","m","a","n","t","i","c","s","c","h","o","l","a","r",".","o","r","g">>
S_pubmed == <<"p","u","b","m","e","d",".","n","c","b","i",".","n","l","m",".","n","i","h",".","g","o","v">>

\* Known property IDs for common platforms
KNOWN_PLATFORMS ==
    [d \in {S_openreview_net, S_arxiv_org, S_doi_org, S_orcid_org,
            S_semanticscholar_org, S_pubmed} |->
        CASE d = S_openreview_net -> <<"P8968", "P8964", "P8965">>
          [] d = S_arxiv_org -> <<"P818">>
          [] d = S_doi_org -> <<"P356">>
          [] d = S_orcid_org -> <<"P496">>
          [] d = S_semanticscholar_org -> <<"P4028">>
          [] d = S_pubmed -> <<"P698">>]


(***************************************************************************)
(* The knowledge base.  KBDetails(pid) is the set of answers a successful  *)
(* wbgetentities request for pid may carry: the claims P1630 (formatter    *)
(* URL), P8966 (URL match pattern), P2302/P1793 (format constraint), P1629 *)
(* (applicable item) and the datatype.                                     *)
(***************************************************************************)
NonSpace == Alphabet \ Whitespace
PatDoi == PatCapture(<<"d","o","i",".","o","r","g","/">>, NonSpace, 1)
PatAbs == PatCapture(<<"/","a","b","s","/">>, Digits \cup {"."}, 1)
PatId == PatCapture(<<"i","d","=">>, LowerChars \cup Digits, 1)
PatOptDigits == PatCapture(<<"/">>, Digits, 0)
PatNoGroup == PatLiteral(<<"d","o","i",".","o","r","g">>)
ConDoi == ConClass(Digits \cup LowerChars \cup {".", "/"})
ConDigits == ConClass(Digits \cup {"."})
FmtDoi == Str(<<"d","o","i",".","o","r","g","/","$","1">>)
FmtArxiv == Str(<<"a","r","x","i","v",".","o","r","g","/","a","b","s","/","$","1">>)
FmtTwice == Str(<<"$","1","?","v","=","$","1">>)

Claims(dt, fmt, pat, con, item) ==
    [datatype |-> dt, formatter_url |-> fmt, url_pattern |-> pat,
     format_constraint |-> con, applicable_item |-> item]
NoItem == "None"
ItemIds == {"Q1", "Q2"}

KBDetails(pid) ==
    CASE pid = "P356" ->
           {Claims("external-id", FmtDoi, PatDoi, ConDoi, NoItem),
            Claims("external-id", FmtDoi, PatDoi, ConDigits, NoItem),
            Claims("external-id", FmtDoi, PatAbs, ConDigits, NoItem),
            Claims("external-id", FmtDoi, None, None, NoItem),
            Claims("external-id", None, PatDoi, None, "Q1"),
            Claims("external-id", Str(<<>>), PatEmpty, PatEmpty, NoItem),
            Claims("external-id", None, PatInvalid, ConDoi, NoItem),
            Claims("external-id", FmtDoi, PatNoGroup, PatInvalid, NoItem),
            Claims("external-id", FmtDoi, PatDoi, PatInvalid, NoItem)}
      [] pid = "P818" ->
           {Claims("external-id", FmtArxiv, PatAbs, ConDigits, NoItem),
            Claims("external-id", FmtArxiv, PatAbs, ConDoi, NoItem),
            Claims("external-id", None, PatOptDigits, None, NoItem)}
      [] pid = "P8968" ->
           {Claims("external-id", FmtTwice, PatId, None, "Q1"),
            Claims("external-id", None, None, None, "Q1")}
      [] pid = "P8964" ->
           {Claims("external-id", None, PatId, ConDigits, NoItem)}
      [] pid = "P8965" ->
           {Claims("external-id", FmtArxiv, PatId, ConDoi, NoItem)}
      [] pid = "P1" ->
           {Claims("string", None, PatAbs, None, "Q1"),
            Claims("external-id", FmtArxiv, None, None, NoItem),
            Claims("string", FmtArxiv, PatAbs, ConDigits, NoItem),
            Claims("external-id", None, None, None, "Q1"),
            Claims("string", Str(<<>>), PatEmpty, None, "Q2")}
      [] pid = "P2" ->
           {Claims("external-id", None, PatDoi, ConDigits, "Q2")}
      [] OTHER -> {}

\* the property ids a backlink query may answer with
BacklinkProps == {"P1", "P2"}

SeqsUpTo(S, n) == UNION {[1..k -> S] : k \in 0..n}

(***************************************************************************)
(* The three requests and what each may return.                            *)
(***************************************************************************)
\* find_platform_in_wikidata: None (RequestException, or no bindings) or
\* the list of items, of which the pipeline reads the id
find_platform_in_wikidata_returns ==
    {None} \cup {[items |-> s] :
                   s \in {[i \in DOMAIN q |-> [id |-> q[i]]] : q \in SeqsUpTo(ItemIds, MaxItems)}}

\* find_identifier_properties: None (RequestException) or the backlinked ids
find_identifier_properties_returns ==
    {None} \cup {[ids |-> s] : s \in SeqsUpTo(BacklinkProps, MaxBacklinks)}

\* get_property_details: None (RequestException, or entity missing) or property_data
get_property_details_returns(property_id) ==
    {None} \cup {[id |-> property_id,
                  datatype |-> c.datatype,
                  label |-> property_id,
                  formatter_url |-> c.formatter_url,
                  url_pattern |-> c.url_pattern,
                  format_constraint |-> c.format_constraint,
                  applicable_item |-> c.applicable_item] : c \in KBDetails(property_id)}

\* the dict get_property_by_id and get_platform_metadata_via_search keep
Simplified(prop_details) ==
    [id |-> prop_details.id,
     label |-> prop_details.label,
     formatter_url |-> prop_details.formatter_url,
     url_pattern |-> prop_details.url_pattern,
     format_constraint |-> prop_details.format_constraint]

get_property_by_id(prop_details) ==
    IF prop_details = None THEN None ELSE Simplified(prop_details)

\* [p["id"] for p in identifier_properties]
IdsOf(props) == {props[i].id : i \in DOMAIN props}


(***************************************************************************)
(* Inputs: the url, written as the parts it is concatenated from, and the  *)
(* optional property_id.                                                   *)
(***************************************************************************)
Parts(scheme, userinfo, host, port, path) ==
    [scheme |-> scheme, userinfo |-> userinfo, host |-> host, port |-> port, path |-> path]
UrlOf(parts) == parts.scheme \o parts.userinfo \o parts.host \o parts.port \o parts.path

Https == <<"h","t","t","p","s",":","/","/">>
PathDoi == <<"/","1","0",".","5","/","x">>
PathDoiSlash == <<"/","1","0",".","5","/","x","/">>
PathAbs == <<"/","a","b","s","/","1",".","2">>
PathForum == <<"/","f","o","r","u","m","?","i","d","=","e","t","5">>
HostEx == <<"e","x",".","i","o">>

\* well-formed urls: scheme, host, path
PlainUrls ==
    {Parts(Https, <<>>, S_doi_org, <<>>, p) : p \in {PathDoi, PathDoiSlash, PathAbs}}
    \cup {Parts(Https, <<>>, S_arxiv_org, <<>>, p) : p \in {PathAbs, PathDoi}}
    \cup {Parts(Https, <<>>, S_openreview_net, <<>>, PathForum)}
    \cup {Parts(Https, <<>>, HostEx, <<>>, p) : p \in {PathAbs, PathDoi}}
\* the same host written in capitals, with a port, with userinfo
DressedUrls ==
    {Parts(Https, <<>>, <<"D","O","I",".","o","r","g">>, <<>>, PathDoi),
     Parts(Https, <<>>, S_doi_org, <<":","8","0">>, PathDoi),
     Parts(Https, <<"u","@">>, S_doi_org, <<>>, PathDoi)}
\* no host: the empty string, no scheme, an empty authority; and an
\* unbalanced bracket in the authority
HostlessUrls ==
    {Parts(<<>>, <<>>, <<>>, <<>>, <<>>),
     Parts(<<>>, <<>>, S_doi_org, <<>>, PathDoi),
     Parts(Https, <<>>, <<>>, <<>>, PathDoi)}
BracketUrls == {Parts(Https, <<>>, <<"[","d","o","i",".","o","r","g">>, <<>>, PathDoi)}

NoProperty == None
PropertyId(p) == [kind |-> "id", id |-> p]

Inputs ==
    {[parts |-> u, property_id |-> q] :
        u \in PlainUrls, q \in {NoProperty, PropertyId("P356"), PropertyId("P818"), PropertyId("P1")}}
    \cup {[parts |-> u, property_id |-> NoProperty] :
            u \in DressedUrls \cup HostlessUrls \cup BracketUrls}


(***************************************************************************)
(* State of one call analyze_research_platform(url, property_id).          *)
(***************************************************************************)
VARIABLES
    input,            \* the parts the url was written from, and property_id
    url,              \* argument url
    property_id,      \* argument property_id (None when not given)
    pc,               \* position in the call
    domain,           \* local domain
    platform_data,    \* local platform_data (domain, wikidata_items, identifier_properties)
    platform_found,   \* local platform_found of the known-platform loop
    fastIdx,          \* position of the loop over KNOWN_PLATFORMS[domain]
    search_data,      \* platform_data of get_platform_metadata_via_search, None before it and when it returns None
    itemIdx,          \* position of the loop over platform_items
    property_ids,     \* property_ids of the item at itemIdx
    propIdx,          \* position of the loop over property_ids
    extracted_ids,    \* platform_data["extracted_ids"]
    formatted_urls,   \* platform_data["formatted_urls"]
    issued,           \* the kinds of request sent so far
    lookups,          \* what get_property_by_id returned for each known property id, in order
    explicit_lookup,  \* how the property_id step ended
    pattern_ids,      \* extracted_ids as the pattern loop left it
    seen_again,       \* discovery met a usable property whose id it already holds
    last_fetch,       \* the detail fetch the discovery loop has just made, if any
    discovered        \* the property list as it stood before the explicit property step

vars == <<input, url, property_id, pc, domain, platform_data, platform_found,
          fastIdx, search_data, itemIdx, property_ids, propIdx, extracted_ids,
          formatted_urls, issued, lookups, explicit_lookup, pattern_ids, seen_again,
          last_fetch, discovered>>

EmptyDict == [k \in {} |-> None]
\* no detail fetch of the discovery loop is pending inspection
NoFetch == [kind |-> "none"]
\* d[k] = v on a dict
DictSet(d, k, v) == [x \in DOMAIN d \cup {k} |-> IF x = k THEN v ELSE d[x]]

NewPlatformData(d, items) ==
    [domain |-> d, wikidata_items |-> items, identifier_properties |-> <<>>]

Init ==
    /\ input \in Inputs
    /\ url = UrlOf(input.parts)
    /\ property_id = input.property_id
    /\ pc = "start"
    /\ domain = <<>>
    /\ platform_data = NewPlatformData(<<>>, <<>>)
    /\ platform_found = FALSE
    /\ fastIdx = 1
    /\ search_data = None
    /\ itemIdx = 1
    /\ property_ids = <<>>
    /\ propIdx = 1
    /\ extracted_ids = EmptyDict
    /\ formatted_urls = EmptyDict
    /\ issued = {}
    /\ lookups = <<>>
    /\ explicit_lookup = "not_run"
    /\ pattern_ids = EmptyDict
    /\ seen_again = FALSE
    /\ last_fetch = NoFetch
    /\ discovered = <<>>

\* variant: the search is made whatever the known-platform loop found
NeedsSearch_Always(data) == TRUE
\* if not platform_data["identifier_properties"]
NeedsSearch(data) == data.identifier_properties = <<>>

\* domain = get_domain_from_url(url); platform_data = {...}; if domain in KNOWN_PLATFORMS
ResolveDomain ==
    /\ pc = "start"
    /\ IF UrlparseRaises(url)
       THEN /\ pc' = "raised"
            /\ UNCHANGED <<domain, platform_data>>
       ELSE LET d == get_domain_from_url(url)
                data == NewPlatformData(d, <<>>)
            IN  /\ domain' = d
                /\ platform_data' = data
                /\ pc' = IF d \in DOMAIN KNOWN_PLATFORMS THEN "fast"
                         ELSE IF NeedsSearch(data) THEN "search" ELSE "explicit"
    /\ UNCHANGED <<input, url, property_id, platform_found, fastIdx, search_data,
                   itemIdx, property_ids, propIdx, extracted_ids, formatted_urls,
                   issued, lookups, explicit_lookup, pattern_ids, seen_again>>
    /\ UNCHANGED <<last_fetch, discovered>>

\* prop_details.get("applicable_item") on the dict get_property_by_id returns,
\* which has no such key
ApplicableItemOfSimplified(prop_details) == NoItem

\* one round of: for prop_id in KNOWN_PLATFORMS[domain]
KnownPlatformRound(data, found, prop_details) ==
    IF prop_details = None THEN [data |-> data, found |-> found]
    ELSE LET item_id == ApplicableItemOfSimplified(prop_details)
             hit == ~found /\ item_id # NoItem
             items == IF hit THEN Append(data.wikidata_items, [id |-> item_id])
                      ELSE data.wikidata_items
         IN  [data |-> [data EXCEPT !.wikidata_items = items,
                                    !.identifier_properties = Append(@, prop_details)],
              found |-> found \/ hit]

FastPathFetch ==
    /\ pc = "fast"
    /\ LET known == KNOWN_PLATFORMS[domain]
       IN  \E r \in get_property_details_returns(known[fastIdx]) :
             LET prop_details == get_property_by_id(r)
                 round == KnownPlatformRound(platform_data, platform_found, prop_details)
             IN  /\ platform_data' = round.data
                 /\ platform_found' = round.found
                 /\ lookups' = Append(lookups, prop_details)
                 /\ issued' = issued \cup {"details"}
                 /\ fastIdx' = fastIdx + 1
                 /\ pc' = IF fastIdx < Len(known) THEN "fast"
                          ELSE IF NeedsSearch(round.data) THEN "search" ELSE "explicit"
    /\ UNCHANGED <<input, url, property_id, domain, search_data, itemIdx, property_ids,
                   propIdx, extracted_ids, formatted_urls, explicit_lookup, pattern_ids, seen_again>>
    /\ UNCHANGED <<last_fetch, discovered>>

\* `not x` on what a request returned: None and the empty list are falsy
Falsy(r, field) == r = None \/ r[field] = <<>>

\* search_result = get_platform_metadata_via_search(domain), up to its step 2
FindPlatform ==
    /\ pc = "search"
    /\ \E r \in find_platform_in_wikidata_returns :
         /\ issued' = issued \cup {"website"}
         /\ IF Falsy(r, "items")
            THEN /\ search_data' = None
                 /\ pc' = "explicit"
                 /\ itemIdx' = itemIdx
            ELSE /\ search_data' = NewPlatformData(domain, r.items)
                 /\ itemIdx' = 1
                 /\ pc' = "items"
    /\ UNCHANGED <<input, url, property_id, domain, platform_data, platform_found, fastIdx,
                   property_ids, propIdx, extracted_ids, formatted_urls, lookups,
                   explicit_lookup, pattern_ids, seen_again>>
    /\ UNCHANGED <<last_fetch, discovered>>

\* variant: if property_ids == []: continue (None is then iterated)
SkipItem_EmptyOnly(r) == r # None /\ r.ids = <<>>
\* if not property_ids: continue
SkipItem(r) == Falsy(r, "ids")

\* property_ids = find_identifier_properties(item_id) for the next item
FindIdentifierProperties ==
    /\ pc = "items"
    /\ itemIdx <= Len(search_data.wikidata_items)
    /\ \E r \in find_identifier_properties_returns :
         /\ issued' = issued \cup {"backlinks"}
         /\ IF SkipItem(r)
            THEN /\ itemIdx' = itemIdx + 1
                 /\ pc' = "items"
                 /\ UNCHANGED <<property_ids, propIdx>>
            ELSE IF r = None
            THEN /\ pc' = "raised"      \* TypeError: 'NoneType' object is not iterable
                 /\ UNCHANGED <<itemIdx, property_ids, propIdx>>
            ELSE /\ property_ids' = r.ids
                 /\ propIdx' = 1
                 /\ pc' = "props"
                 /\ itemIdx' = itemIdx
    /\ UNCHANGED <<input, url, property_id, domain, platform_data, platform_found, fastIdx,
                   search_data, extracted_ids, formatted_urls, lookups, explicit_lookup,
                   pattern_ids, seen_again>>
    /\ last_fetch' = NoFetch
    /\ UNCHANGED discovered

\* if prop_details.get("formatter_url") or prop_details.get("url_pattern")
HasFormatterOrPattern(prop_details) ==
    StrTruthy(prop_details.formatter_url) \/ PatTruthy(prop_details.url_pattern)
\* variant: a property is kept whatever item it applies to
AppliesToItem_Any(prop_details, item_id) == TRUE
\* applies_to_item
AppliesToItem(prop_details, item_id) ==
    prop_details.applicable_item = item_id \/ prop_details.datatype = "external-id"
\* variant: the property is appended without looking at existing_ids
NotExisting_Unchecked(prop_details, data) == TRUE
\* if prop_details["id"] not in existing_ids
NotExisting(prop_details, data) == prop_details.id \notin IdsOf(data.identifier_properties)

\* the body of: for prop_id in property_ids, after get_property_details
DiscoveryRound(data, item_id, prop_details) ==
    IF /\ prop_details # None
       /\ HasFormatterOrPattern(prop_details)
       /\ AppliesToItem(prop_details, item_id)
       /\ NotExisting(prop_details, data)
    THEN [data EXCEPT !.identifier_properties = Append(@, Simplified(prop_details))]
    ELSE data

\* a property that passes the filters and is already in the list
Duplicate(data, item_id, prop_details) ==
    /\ prop_details # None
    /\ HasFormatterOrPattern(prop_details)
    /\ AppliesToItem(prop_details, item_id)
    /\ ~NotExisting(prop_details, data)

DiscoveryFetch ==
    /\ pc = "props"
    /\ \E r \in get_property_details_returns(property_ids[propIdx]) :
         /\ issued' = issued \cup {"details"}
         /\ search_data' = DiscoveryRound(search_data, search_data.wikidata_items[itemIdx].id, r)
         /\ seen_again' = (seen_again \/ Duplicate(search_data, search_data.wikidata_items[itemIdx].id, r))
         /\ last_fetch' = [kind |-> "fetch",
                           item_id |-> search_data.wikidata_items[itemIdx].id,
                           prop_id |-> property_ids[propIdx],
                           prop_details |-> r,
                           before |-> search_data.identifier_properties]
    /\ IF propIdx < Len(property_ids)
       THEN /\ propIdx' = propIdx + 1
            /\ UNCHANGED <<property_ids, itemIdx, pc>>
       ELSE /\ propIdx' = 1
            /\ property_ids' = <<>>
            /\ itemIdx' = itemIdx + 1
            /\ pc' = "items"
    /\ UNCHANGED <<input, url, property_id, domain, platform_data, platform_found, fastIdx,
                   extracted_ids, formatted_urls, lookups, explicit_lookup, pattern_ids>>
    /\ UNCHANGED discovered

\* return platform_data; if search_result: platform_data = search_result
ReturnSearch ==
    /\ pc = "items"
    /\ itemIdx > Len(search_data.wikidata_items)
    /\ platform_data' = search_data
    /\ pc' = "explicit"
    /\ UNCHANGED <<input, url, property_id, domain, platform_found, fastIdx, search_data,
                   itemIdx, property_ids, propIdx, extracted_ids, formatted_urls, issued,
                   lookups, explicit_lookup, pattern_ids, seen_again>>
    /\ last_fetch' = NoFetch
    /\ UNCHANGED discovered

\* variant: the explicit property is fetched whenever an id is given
WantsExplicit_Always(pid, data) == pid # None
\* if property_id and property_id not in [p["id"] for p in ...]
WantsExplicit(pid, data) == pid # None /\ pid.id \notin IdsOf(data.identifier_properties)

ExplicitProperty ==
    /\ pc = "explicit"
    /\ IF WantsExplicit(property_id, platform_data)
       THEN \E r \in get_property_details_returns(property_id.id) :
              LET prop_details == get_property_by_id(r)
              IN  /\ issued' = issued \cup {"details"}
                  /\ IF prop_details # None
                     THEN /\ platform_data' = [platform_data EXCEPT
                                 !.identifier_properties = Append(@, prop_details)]
                          /\ explicit_lookup' = "fetched"
                     ELSE /\ platform_data' = platform_data
                          /\ explicit_lookup' = "failed"
       ELSE /\ explicit_lookup' = "skipped"
            /\ UNCHANGED <<platform_data, issued>>
    /\ pc' = "extract"
    /\ UNCHANGED <<input, url, property_id, domain, platform_found, fastIdx, search_data,
                   itemIdx, property_ids, propIdx, extracted_ids, formatted_urls, lookups,
                   pattern_ids, seen_again>>
    /\ discovered' = platform_data.identifier_properties
    /\ UNCHANGED last_fetch


(***************************************************************************)
(* Extraction: the pattern loop and the DOI fallback.                      *)
(***************************************************************************)
\* platform_data["extracted_ids"][prop["id"]] = {...} and, with a formatter,
\* platform_data["formatted_urls"][prop["id"]] = formatter.replace("$1", id)
Record(acc, prop, extracted_id) ==
    [ids |-> DictSet(acc.ids, prop.id, [id |-> extracted_id, property |-> prop]),
     urls |-> IF StrTruthy(prop.formatter_url)
              THEN DictSet(acc.urls, prop.id, ReplaceDollar1(prop.formatter_url.s, extracted_id))
              ELSE acc.urls]

\* the body of the first: for prop in platform_data["identifier_properties"]
PatternRound(acc, prop, u) ==
    LET extracted_id == extract_id_from_url(u, prop)
    IN  IF StrTruthy(extracted_id) /\ validate_id_format(extracted_id.s, prop.format_constraint)
        THEN Record(acc, prop, extracted_id.s)
        ELSE acc

RECURSIVE PatternLoop(_, _, _)
PatternLoop(acc, props, u) ==
    IF props = <<>> THEN acc
    ELSE PatternLoop(PatternRound(acc, Head(props), u), Tail(props), u)

\* variant: the fallback is not scoped to one domain
IsDoiDomain_Any(d) == TRUE
\* if domain == "doi.org"
IsDoiDomain(d) == d = S_doi_org

\* variant: the fallback records under the DOI property id, not prop["id"]
FallbackRound_FixedKey(acc, prop, u, d) ==
    IF PatTruthy(prop.url_pattern) /\ IsDoiDomain(d) /\ DoiSearch(u) # None
    THEN Record(acc, [prop EXCEPT !.id = "P356"], DoiSearch(u).s)
    ELSE acc
\* variant: the fallback records the DOI under the DOI property alone
FallbackRound_DoiPropertyOnly(acc, prop, u, d) ==
    IF PatTruthy(prop.url_pattern) /\ prop.id = "P356" /\ IsDoiDomain(d) /\ DoiSearch(u) # None
    THEN Record(acc, prop, DoiSearch(u).s)
    ELSE acc
\* the body of the second loop, entered when extracted_ids is empty
FallbackRound(acc, prop, u, d) ==
    IF PatTruthy(prop.url_pattern) /\ IsDoiDomain(d) /\ DoiSearch(u) # None
    THEN Record(acc, prop, DoiSearch(u).s)
    ELSE acc

RECURSIVE FallbackLoop(_, _, _, _)
FallbackLoop(acc, props, u, d) ==
    IF props = <<>> THEN acc
    ELSE FallbackLoop(FallbackRound(acc, Head(props), u, d), Tail(props), u, d)

\* if not platform_data["extracted_ids"]
FallbackEntered(ids) == DOMAIN ids = {}

ExtractLoop ==
    /\ pc = "extract"
    /\ LET acc == PatternLoop([ids |-> EmptyDict, urls |-> EmptyDict],
                              platform_data.identifier_properties, url)
       IN  /\ extracted_ids' = acc.ids
           /\ formatted_urls' = acc.urls
           /\ pattern_ids' = acc.ids
    /\ pc' = "fallback"
    /\ UNCHANGED <<input, url, property_id, domain, platform_data, platform_found, fastIdx,
                   search_data, itemIdx, property_ids, propIdx, issued, lookups,
                   explicit_lookup, seen_again>>
    /\ UNCHANGED <<last_fetch, discovered>>

DoiFallback ==
    /\ pc = "fallback"
    /\ LET acc == IF FallbackEntered(extracted_ids)
                  THEN FallbackLoop([ids |-> extracted_ids, urls |-> formatted_urls],
                                    platform_data.identifier_properties, url, domain)
                  ELSE [ids |-> extracted_ids, urls |-> formatted_urls]
       IN  /\ extracted_ids' = acc.ids
           /\ formatted_urls' = acc.urls
    /\ pc' = "done"
    /\ UNCHANGED <<input, url, property_id, domain, platform_data, platform_found, fastIdx,
                   search_data, itemIdx, property_ids, propIdx, issued, lookups,
                   explicit_lookup, pattern_ids, seen_again>>
    /\ UNCHANGED <<last_fetch, discovered>>

Next ==
    \/ ResolveDomain
    \/ FastPathFetch
    \/ FindPlatform
    \/ FindIdentifierProperties
    \/ DiscoveryFetch
    \/ ReturnSearch
    \/ ExplicitProperty
    \/ ExtractLoop
    \/ DoiFallback

Spec == Init /\ [][Next]_vars


(***************************************************************************)
(* Properties.                                                             *)
(***************************************************************************)
Props == platform_data.identifier_properties
NotNone(x) == x # None
\* the known-platform lookups that succeeded, in the order they were made
Fetched == SelectSeq(lookups, NotNone)
AllLookupsFailed == \A i \in DOMAIN lookups : lookups[i] = None
DiscoveryIssued == "website" \in issued \/ "backlinks" \in issued

\* C1: for a domain of KNOWN_PLATFORMS no discovery query (website search,
\* backlink search) is issued unless every known-property lookup failed, and
\* when at least one succeeded the property list holds exactly the fetched
\* known properties, in the order of the table, before the property_id step
\* (and at most one more property after it).
C1_FastPathPrecedence ==
    (pc \notin {"start", "raised"} /\ domain \in DOMAIN KNOWN_PLATFORMS) =>
        /\ DiscoveryIssued =>
              /\ Len(lookups) = Len(KNOWN_PLATFORMS[domain])
              /\ AllLookupsFailed
        /\ \A i \in DOMAIN lookups :
              lookups[i] # None => lookups[i].id = KNOWN_PLATFORMS[domain][i]
        /\ (pc = "explicit" /\ ~AllLookupsFailed) => Props = Fetched
        /\ (pc \in {"extract", "fallback", "done"} /\ ~AllLookupsFailed) =>
              /\ SubSeq(Props, 1, Len(Fetched)) = Fetched
              /\ Len(Props) <= Len(Fetched) + 1
              /\ ~DiscoveryIssued

\* C1 witness: on openreview.net the first lookup failed and the next two
\* succeeded; the pipeline went on without discovery
C1_Witness ==
    /\ pc = "done"
    /\ domain = S_openreview_net
    /\ Len(lookups) = 3
    /\ lookups[1] = None /\ lookups[2] # None /\ lookups[3] # None
    /\ Len(Props) = 2

PropertyFields == {"id", "label", "formatter_url", "url_pattern", "format_constraint"}
\* the result dict: domain, wikidata_items, identifier_properties, extracted_ids
WellFormedResult ==
    /\ DOMAIN platform_data = {"domain", "wikidata_items", "identifier_properties"}
    /\ platform_data.domain = domain
    /\ \A i \in DOMAIN platform_data.wikidata_items :
          DOMAIN platform_data.wikidata_items[i] = {"id"}
    /\ \A i \in DOMAIN Props : DOMAIN Props[i] = PropertyFields
    /\ \A k \in DOMAIN extracted_ids : DOMAIN extracted_ids[k] = {"id", "property"}
BothPathsYieldNothing == AllLookupsFailed /\ search_data = None
ResultEmpty ==
    /\ platform_data.wikidata_items = <<>>
    /\ Props = <<>>
    /\ DOMAIN extracted_ids = {}

\* the step at the current position is defined: every loop index is inside
\* the list it walks, and no list a loop walks is None
CanProceed ==
    /\ pc \in {"start", "fast", "search", "items", "props", "explicit", "extract",
               "fallback", "done", "raised"}
    /\ pc = "fast" => (domain \in DOMAIN KNOWN_PLATFORMS
                        /\ fastIdx \in DOMAIN KNOWN_PLATFORMS[domain])
    /\ pc \in {"items", "props"} =>
          (search_data # None /\ itemIdx \in 1..(Len(search_data.wikidata_items) + 1))
    /\ pc = "props" => (itemIdx \in DOMAIN search_data.wikidata_items
                         /\ propIdx \in DOMAIN property_ids)

\* C2 as stated: for every url the call does not raise and returns a
\* well-formed result, and when the fast path and discovery both yield
\* nothing the item list, the property list and the extractions are empty.
C2_Original ==
    /\ pc # "raised"
    /\ pc = "done" => (WellFormedResult /\ (BothPathsYieldNothing => ResultEmpty))

\* C2 as amended: the only exception is urlparse's ValueError; for every
\* other url every step can be taken until the call returns, whatever the
\* requests answer; the result is well formed; and when the fast path and
\* discovery both yield nothing and no property_id was fetched, the item
\* list, the property list and the extractions are empty.
C2_NeverRaisesWellFormed ==
    /\ pc = "raised" => (UrlparseRaises(url) /\ issued = {})
    /\ CanProceed
    /\ pc = "done" =>
          /\ WellFormedResult
          /\ (BothPathsYieldNothing /\ explicit_lookup # "fetched") =>
                (ResultEmpty /\ DOMAIN formatted_urls = {})

\* C2 witness: every request failed (known lookup, website search, the
\* property_id lookup) and the call returned
C2_Witness ==
    /\ pc = "done"
    /\ domain = S_doi_org
    /\ lookups = <<None>>
    /\ "website" \in issued
    /\ search_data = None
    /\ explicit_lookup = "failed"
    /\ ResultEmpty

RecordedValid(k) ==
    /\ extracted_ids[k].id # <<>>
    /\ extracted_ids[k].property.id = k
    /\ validate_id_format(extracted_ids[k].id, extracted_ids[k].property.format_constraint)

\* C3: every recorded extraction holds a non-empty id that passes
\* validate_id_format against the format constraint of its property,
\* whichever step recorded it.
C3_RecordedIdsValid ==
    pc = "done" => \A k \in DOMAIN extracted_ids : RecordedValid(k)

\* a DOI-shaped string: "10." digits "/" and one or more characters that are
\* neither "/" nor whitespace
IsDoiShaped(t) ==
    \E n \in 1..Len(t) :
        /\ Len(t) >= n + 5
        /\ t[1] = "1" /\ t[2] = "0" /\ t[3] = "."
        /\ \A k \in 4..(n + 3) : t[k] \in Digits
        /\ t[n + 4] = "/"
        /\ \A k \in (n + 5)..Len(t) : t[k] # "/" /\ t[k] \notin Whitespace
DoiShapedSuffixes(u) == {t \in {Drop(u, n) : n \in 0..Len(u)} : IsDoiShaped(t)}
SomePropertyHasPattern == \E i \in DOMAIN Props : PatTruthy(Props[i].url_pattern)
RecordsDoiSuffix ==
    \E k \in DOMAIN extracted_ids : extracted_ids[k].id \in DoiShapedSuffixes(url)

\* C4 as stated: on doi.org, a url ending in a DOI-shaped suffix gets that
\* suffix recorded whenever the pattern loop recorded nothing, whatever the
\* properties are.
C4_Original ==
    (pc = "done" /\ domain = S_doi_org /\ DoiShapedSuffixes(url) # {}
        /\ DOMAIN pattern_ids = {})
    => RecordsDoiSuffix

\* C4 as amended: the same, when at least one property of the list carries a
\* non-empty url pattern; every id then recorded is that suffix, and without
\* such a property nothing is recorded.
C4_DoiFallbackExtractsSuffix ==
    (pc = "done" /\ domain = S_doi_org /\ DoiShapedSuffixes(url) # {}
        /\ DOMAIN pattern_ids = {})
    => IF SomePropertyHasPattern
       THEN /\ RecordsDoiSuffix
            /\ \A k \in DOMAIN extracted_ids :
                  extracted_ids[k].id \in DoiShapedSuffixes(url)
       ELSE DOMAIN extracted_ids = {}

\* C4 witness: the pattern loop recorded nothing, a property has a pattern,
\* and the fallback recorded the suffix
C4_Witness ==
    /\ pc = "done"
    /\ domain = S_doi_org
    /\ DOMAIN pattern_ids = {}
    /\ SomePropertyHasPattern
    /\ RecordsDoiSuffix

\* C5: the fallback step leaves the extractions as the pattern loop left
\* them unless the domain is doi.org and the pattern loop recorded nothing.
C5_FallbackScoped ==
    (pc = "done" /\ ~(domain = S_doi_org /\ DOMAIN pattern_ids = {}))
    => extracted_ids = pattern_ids

\* C5 witness: a url off doi.org that ends in a DOI-shaped suffix, a
\* property with a pattern, nothing recorded by the pattern loop: the
\* fallback loop ran and recorded nothing
C5_Witness ==
    /\ pc = "done"
    /\ domain # S_doi_org
    /\ DoiShapedSuffixes(url) # {}
    /\ SomePropertyHasPattern
    /\ DOMAIN pattern_ids = {}
    /\ DOMAIN extracted_ids = {}

\* C6: every key of the extractions is the id of a property of the list.
C6_KeysAreListedProperties ==
    pc \in {"fallback", "done"} => DOMAIN extracted_ids \subseteq IdsOf(Props)

\* C6 witness: a property_id was fetched and appended, and the fallback recorded
\* an id under it
C6_Witness ==
    /\ pc = "done"
    /\ explicit_lookup = "fetched"
    /\ DOMAIN pattern_ids = {}
    /\ property_id.id \in DOMAIN extracted_ids

UniqueIds(props) == \A i, j \in DOMAIN props : i # j => props[i].id # props[j].id

\* C7: no two records of the property list have the same id, in discovery's
\* list as it grows and in the list of the result.
C7_UniquePropertyIds ==
    /\ UniqueIds(Props)
    /\ search_data # None => UniqueIds(search_data.identifier_properties)

\* C7 witness: discovery met a usable property it already held, and a
\* property_id was appended afterwards
C7_Witness ==
    /\ pc = "done"
    /\ seen_again
    /\ explicit_lookup = "fetched"
    /\ Len(Props) >= 2

AllPropertyIds == IdsOf(Props) \cup DOMAIN extracted_ids \cup DOMAIN formatted_urls
PropertyOf(k) == Props[CHOOSE i \in DOMAIN Props : Props[i].id = k]

\* C8: formatted_urls has a url for P exactly when P has a recorded
\* extraction that is valid for P's format constraint and P has a non-empty
\* formatter; the url is the formatter with $1 replaced by the recorded id.
C8_FormattedIffValidAndFormatter ==
    pc = "done" =>
        \A k \in AllPropertyIds :
            /\ k \in DOMAIN formatted_urls <=>
                  /\ k \in DOMAIN extracted_ids
                  /\ RecordedValid(k)
                  /\ StrTruthy(PropertyOf(k).formatter_url)
            /\ k \in DOMAIN formatted_urls =>
                  formatted_urls[k] =
                      ReplaceDollar1(PropertyOf(k).formatter_url.s, extracted_ids[k].id)

\* an input that is no url with a host: no scheme, or an empty host
Hostless(parts) == parts.scheme = <<>> \/ parts.host = <<>>

\* C9: for an input without a host the call fails at once: it does not go on
\* with an empty domain and sends no request.
C9_HostlessInputFails ==
    Hostless(input.parts) => (pc \in {"start", "raised"} /\ issued = {})

\* C10: the domain is the host in lower case, without port or userinfo.
C10_DomainIsLowercaseHost ==
    (pc \notin {"start", "raised"} /\ ~Hostless(input.parts))
    => domain = Lower(input.parts.host)

\* a property whose url pattern or format constraint is no valid regex
MalformedPattern(p) == p.url_pattern.kind = "invalid"
MalformedConstraint(p) == p.format_constraint.kind = "invalid"
Malformed(p) == MalformedPattern(p) \/ MalformedConstraint(p)
WellFormed(p) == ~Malformed(p)

\* C11: a property whose url pattern or format constraint is no valid regex
\* gets no extraction from the pattern loop and the call does not raise; the
\* pattern loop records for the other properties exactly what it records on
\* the list without the malformed properties.
C11_MalformedRegexIsolated ==
    /\ (\E i \in DOMAIN Props : Malformed(Props[i])) => pc # "raised"
    /\ pc \in {"fallback", "done"} =>
          /\ \A i \in DOMAIN Props : Malformed(Props[i]) => Props[i].id \notin DOMAIN pattern_ids
          /\ pattern_ids = PatternLoop([ids |-> EmptyDict, urls |-> EmptyDict],
                                       SelectSeq(Props, WellFormed), url).ids
\* a constraint that does not compile rejected a non-empty extraction, a url
\* pattern that compiles recorded one for another property, the call finished
C11_Witness ==
    /\ pc = "done"
    /\ \E i, j \in DOMAIN Props :
          /\ MalformedConstraint(Props[i])
          /\ Props[i].url_pattern.kind = "capture"
          /\ StrTruthy(SearchCapture(Props[i].url_pattern, url))
          /\ Props[j].id \in DOMAIN pattern_ids

\* the list the discovery loop is building
DiscoveredSoFar == search_data.identifier_properties
\* the fetch just made succeeded, the property has a non-empty formatter or
\* url pattern, and it names the entry it was reached through as its subject
\* or is of datatype external-id
Qualifies(f) ==
    /\ f.prop_details # None
    /\ \/ f.prop_details.formatter_url.kind = "str" /\ f.prop_details.formatter_url.s # <<>>
       \/ f.prop_details.url_pattern.kind \notin {"none", "empty"}
    /\ \/ f.prop_details.applicable_item = f.item_id
       \/ f.prop_details.datatype = "external-id"

\* C12 as stated: on the discovery path a property reached through entry E is
\* in the list if and only if its details were fetched, it has a formatter or
\* a url pattern, and it applies to E or is of datatype external-id.
C12_Original ==
    last_fetch.kind = "fetch" =>
        (last_fetch.prop_id \in IdsOf(DiscoveredSoFar) <=> Qualifies(last_fetch))

\* C12: a property reached through entry E is appended to the list on that
\* reach if and only if its details were fetched, it has a formatter or a url
\* pattern, it applies to E or is of datatype external-id, and its id is not
\* yet in the list; a reach changes the list in no other way, the list is
\* empty before the first reach, and every listed property has a formatter or
\* a url pattern.
C12_DiscoveryKeepsQualifying ==
    /\ last_fetch.kind = "fetch" =>
          /\ last_fetch.prop_details # None => last_fetch.prop_details.id = last_fetch.prop_id
          /\ DiscoveredSoFar =
                IF Qualifies(last_fetch) /\ last_fetch.prop_id \notin IdsOf(last_fetch.before)
                THEN Append(last_fetch.before, Simplified(last_fetch.prop_details))
                ELSE last_fetch.before
    /\ (pc = "items" /\ itemIdx = 1) => DiscoveredSoFar = <<>>
    /\ pc \in {"items", "props"} =>
          \A i \in DOMAIN DiscoveredSoFar :
              \/ DiscoveredSoFar[i].formatter_url.kind = "str" /\ DiscoveredSoFar[i].formatter_url.s # <<>>
              \/ DiscoveredSoFar[i].url_pattern.kind \notin {"none", "empty"}
\* a property of datatype string is kept because it names the entry it was
\* reached through, after another entry's reach had already added a property
C12_Witness ==
    /\ last_fetch.kind = "fetch"
    /\ Qualifies(last_fetch)
    /\ last_fetch.prop_details.datatype = "string"
    /\ last_fetch.before # <<>>
    /\ last_fetch.prop_id \notin IdsOf(last_fetch.before)
    /\ last_fetch.prop_id \in IdsOf(DiscoveredSoFar)

\* the explicit property step has run
AfterExplicit == pc \in {"extract", "fallback", "done"}
\* the pattern loop has run
AfterPatternLoop == pc \in {"fallback", "done"}
LastProp == Props[Len(Props)]

\* C13: with an explicit property id, a property of that id already among
\* the discovered ones means no detail fetch and an unchanged list; otherwise
\* one detail fetch is made, which on success appends the property after all
\* discovered ones and on failure leaves the list unchanged; an appended
\* explicit property is recorded by the pattern loop exactly when its url
\* pattern extracts an id that passes its format constraint.
C13_ExplicitPropertyStep ==
    /\ (AfterExplicit /\ property_id # None) =>
          IF property_id.id \in IdsOf(discovered)
          THEN explicit_lookup = "skipped" /\ Props = discovered
          ELSE /\ explicit_lookup \in {"fetched", "failed"}
               /\ "details" \in issued
               /\ explicit_lookup = "failed" => Props = discovered
               /\ explicit_lookup = "fetched" =>
                     /\ Len(Props) = Len(discovered) + 1
                     /\ SubSeq(Props, 1, Len(discovered)) = discovered
                     /\ LastProp.id = property_id.id
    /\ (AfterExplicit /\ property_id = None) =>
          explicit_lookup = "skipped" /\ Props = discovered
    /\ (AfterPatternLoop /\ explicit_lookup = "fetched") =>
          LET extracted_id == extract_id_from_url(url, LastProp)
              ok == StrTruthy(extracted_id)
                    /\ validate_id_format(extracted_id.s, LastProp.format_constraint)
          IN  /\ LastProp.id \in DOMAIN pattern_ids <=> ok
              /\ ok => pattern_ids[LastProp.id].id = extracted_id.s
\* an explicit property was fetched, appended after a discovered one, and
\* the pattern loop recorded an id under it
C13_Witness ==
    /\ pc = "done"
    /\ property_id # None
    /\ explicit_lookup = "fetched"
    /\ discovered # <<>>
    /\ LastProp.id = property_id.id
    /\ property_id.id \in DOMAIN extracted_ids

\* the fallback fires: a doi.org url with a DOI-shaped suffix, on which the
\* pattern loop recorded nothing
FallbackFires ==
    /\ pc = "done"
    /\ domain = S_doi_org
    /\ DOMAIN pattern_ids = {}
    /\ DoiShapedSuffixes(url) # {}
PatternCarriers == {Props[i].id : i \in {j \in DOMAIN Props : Props[j].url_pattern.kind \notin {"none", "empty"}}}

\* C14: when the DOI fallback fires, the DOI-shaped suffix is the raw id
\* recorded under every listed property that carries a url pattern, the DOI
\* property or not, and under no property without one.
C14_FallbackRecordsUnderEveryPattern ==
    FallbackFires =>
        /\ DOMAIN extracted_ids = PatternCarriers
        /\ \A k \in DOMAIN extracted_ids : extracted_ids[k].id \in DoiShapedSuffixes(url)
        /\ \A k, l \in DOMAIN extracted_ids : extracted_ids[k].id = extracted_ids[l].id
\* on a doi.org url the explicitly added arXiv property and the DOI property
\* both hold the DOI string
C14_Witness ==
    /\ FallbackFires
    /\ property_id # None
    /\ property_id.id = "P818"
    /\ explicit_lookup = "fetched"
    /\ {"P356", "P818"} \subseteq DOMAIN extracted_ids
    /\ extracted_ids["P818"].id = extracted_ids["P356"].id
    /\ extracted_ids["P818"].id \in DoiShapedSuffixes(url)

====
